---- MODULE Spec2Model ----
(***************************************************************************)
(* balena-cli: OS version resolution and image download                    *)
(* (src/lib/utils/cloud.ts), the 'os download' command                     *)
(* (src/build/actions/wizard.js), the memoized lookups of cloud.ts and the  *)
(* 'release export' / 'release import' commands                            *)
(* (src/lib/commands/release/export.ts, import.ts).                        *)
(*                                                                         *)
(* Strings are sequences of one-character strings, so that slice,          *)
(* endsWith, indexOf and concatenation are computed as the code computes   *)
(* them.                                                                   *)
(***************************************************************************)
EXTENDS Integers, Sequences, FiniteSets, TLC

(***************************************************************************)
(* Bounds                                                                  *)
(***************************************************************************)
\* longest token enumerated exhaustively over TokenAlphabet
MaxTokenLen == 5
\* most entries of a catalog response
MaxCatalog == 2
\* most bytes of a stream's payload
MaxPayload == 2
\* most calls of the memoized lookups in one process
MaxCalls == 3

(***************************************************************************)
(* String helpers (JavaScript String methods)                              *)
(***************************************************************************)
\* String.prototype.endsWith
EndsWith(s, suffix) ==
    /\ Len(s) >= Len(suffix)
    /\ SubSeq(s, Len(s) - Len(suffix) + 1, Len(s)) = suffix

\* String.prototype.slice(n) / substring(n), n counted from 0
SliceFrom(s, n) == SubSeq(s, n + 1, Len(s))

\* String.prototype.indexOf(ch): 0-based index of the first ch, -1 if none
IndexOf(s, ch) ==
    IF \E k \in 1..Len(s) : s[k] = ch
    THEN (CHOOSE k \in 1..Len(s) :
              /\ s[k] = ch
              /\ \A j \in 1..(k - 1) : s[j] # ch) - 1
    ELSE -1

(***************************************************************************)
(* String literals of cloud.ts                                             *)
(***************************************************************************)
DotDev == <<".", "d", "e", "v">>
DotProd == <<".", "p", "r", "o", "d">>
MenuToken == <<"m", "e", "n", "u">>
MenuEsrToken == <<"m", "e", "n", "u", "-", "e", "s", "r">>
DefaultToken == <<"d", "e", "f", "a", "u", "l", "t">>
NoToken == <<>>

(***************************************************************************)
(* resolveOSVersion, the branch after the menu test (cloud.ts 205-215)     *)
(***************************************************************************)
\* line 202: ['menu', 'menu-esr'].includes(version)
IsMenuToken(version) == version \in {MenuToken, MenuEsrToken}

\* lines 205-207: strip one leading 'v'
StripV_All(version) ==
    IF \E k \in 1..Len(version) : version[k] # "v"
    THEN SliceFrom(version,
             (CHOOSE k \in 1..Len(version) :
                  /\ version[k] # "v"
                  /\ \A j \in 1..(k - 1) : version[j] = "v") - 1)
    ELSE <<>>
StripV(version) ==
    IF Len(version) > 0 /\ version[1] = "v"
    THEN SliceFrom(version, 1)
    ELSE version

\* lines 212-214: append '.prod' unless the version ends in '.dev' or '.prod'
AddSuffix(version) ==
    IF ~EndsWith(version, DotDev) /\ ~EndsWith(version, DotProd)
    THEN version \o DotProd
    ELSE version

\* lines 205-215
resolveOSVersion(version) == AddSuffix(StripV(version))

(***************************************************************************)
(* Inputs of the resolver specification                                    *)
(***************************************************************************)
TokenAlphabet == {"v", ".", "d", "e", "p", "r", "o"}

\* every non-empty string over TokenAlphabet of length <= MaxTokenLen
BoundedTokens == UNION {[1..n -> TokenAlphabet] : n \in 1..MaxTokenLen}

\* the tokens of the command's help text and examples (wizard.js 98-108,
\* 126-136), with and without 'v' prefixes and '.dev'/'.prod' suffixes
ExampleBodies ==
    { <<"2", ".", "6", "0", ".", "1", "+", "r", "e", "v", "1">>,
      <<"^", "2", ".", "6", "0", ".", "0">>,
      <<"2", "0", "2", "1", ".", "1", "0", ".", "1">>,
      <<"l", "a", "t", "e", "s", "t">>,
      DefaultToken,
      <<"r", "e", "c", "o", "m", "m", "e", "n", "d", "e", "d">>,
      <<"v">>, <<"p", "r", "o", "d">> }
ExamplePrefixes == { <<>>, <<"v">>, <<"v", "v">> }
ExampleSuffixes ==
    { <<>>, DotDev, DotProd, DotDev \o DotProd, DotProd \o DotDev,
      <<".", "d", "e">>, <<"d", "e", "v">>, DotProd \o <<"v">> }
ExampleTokens ==
    { p \o b \o s : p \in ExamplePrefixes, b \in ExampleBodies,
                    s \in ExampleSuffixes }

ResolverTokens == BoundedTokens \cup ExampleTokens

(***************************************************************************)
(* getFormattedOsVersions (cloud.ts 243-267)                               *)
(***************************************************************************)
\* SDK.OsVersion as read by cloud.ts: rawVersion, formattedVersion, osType,
\* isRecommended
OsTypes == {"default", "esr"}

\* lines 248-250: (response)[deviceType] ?? []
\* the response of getAvailableOsVersions([deviceType]) either has the
\* deviceType key (present) or lacks it
LookupDeviceType(resp) == IF resp.present THEN resp.versions ELSE <<>>

\* line 252: v.osType === (esr ? 'esr' : 'default')
OsTypeMatches(v, esr) == v.osType = (IF esr THEN "esr" ELSE "default")

\* lines 254-258: the reformatted label
FormatVersion_DropSpace(v) ==
    LET i == IndexOf(v.formattedVersion, " ")
    IN IF i < 0
       THEN <<"v">> \o v.rawVersion
       ELSE <<"v">> \o v.rawVersion \o SliceFrom(v.formattedVersion, i + 1)
FormatVersion(v) ==
    LET i == IndexOf(v.formattedVersion, " ")
    IN IF i < 0
       THEN <<"v">> \o v.rawVersion
       ELSE <<"v">> \o v.rawVersion \o SliceFrom(v.formattedVersion, i)

\* lines 253-260: .map(v => { v.formattedVersion = ...; return v })
Reformat(v) == [v EXCEPT !.formattedVersion = FormatVersion(v)]

\* lines 247-260: the filtered, reformatted list
FormattedVersions(resp, esr) ==
    LET matching(v) == OsTypeMatches(v, esr)
        kept == SelectSeq(LookupDeviceType(resp), matching)
    IN [k \in 1..Len(kept) |-> Reformat(kept[k])]

\* line 261: if (!versions.length) throw new ExpectedError(...)
NoVersions_Never(versions) == FALSE
NoVersions(versions) == Len(versions) = 0

\* lines 243-267: the outcome, a list or the error naming deviceType
getFormattedOsVersions(resp, deviceType, esr) ==
    LET versions == FormattedVersions(resp, esr)
    IN IF NoVersions(versions)
       THEN [ok |-> FALSE, versions |-> <<>>, error |-> "NoVersionsFound",
             deviceType |-> deviceType]
       ELSE [ok |-> TRUE, versions |-> versions, error |-> "none",
             deviceType |-> deviceType]

(***************************************************************************)
(* Inputs: catalogs                                                        *)
(***************************************************************************)
DeviceTypes == {"raspberrypi3", "intel-nuc"}
RawVersions == { <<"A">>, <<"B">>, <<"2", ".", "1">> }
\* upstream labels: no space, one space, leading space, two spaces, empty
Labels ==
    { <<"x">>, <<"x", " ", "y">>, <<" ", "x">>,
      <<"x", " ", "y", " ", "z">>, <<>> }

OsVersionsWith(labels) ==
    [rawVersion : RawVersions, formattedVersion : labels,
     osType : OsTypes, isRecommended : BOOLEAN]

\* catalogs of at most MaxCatalog entries with unique rawVersion (spec 3)
CatalogsWith(labels) ==
    { c \in UNION {[1..n -> OsVersionsWith(labels)] : n \in 0..MaxCatalog} :
        \A i, j \in 1..Len(c) : i # j => c[i].rawVersion # c[j].rawVersion }

ResponsesWith(labels) ==
    { [present |-> FALSE, versions |-> <<>>] }
    \cup { [present |-> TRUE, versions |-> c] : c \in CatalogsWith(labels) }

\* the catalogs and tokens the command specification draws from
CommandLabels == { <<"x">>, <<"x", " ", "y">> }
CommandTokens ==
    { NoToken, MenuToken, MenuEsrToken, DefaultToken, <<"v", "1">>,
      <<"1", ".", "d", "e", "v">> }

(***************************************************************************)
(* selectOSVersionFromMenu (cloud.ts 218-235)                              *)
(***************************************************************************)
Undefined == <<"undefined">>

\* lines 224-227: vs.map(v => ({ value: v.rawVersion, name: v.formattedVersion }))
MenuChoices(vs) ==
    [k \in 1..Len(vs) |->
        [value |-> vs[k].rawVersion, name |-> vs[k].formattedVersion]]

\* line 233: (vs.find(v => v.isRecommended) ?? vs[0])?.rawVersion
MenuDefault_First(vs) ==
    IF Len(vs) = 0 THEN Undefined ELSE vs[1].rawVersion
MenuDefault(vs) ==
    IF \E k \in 1..Len(vs) : vs[k].isRecommended
    THEN vs[CHOOSE k \in 1..Len(vs) :
                /\ vs[k].isRecommended
                /\ \A j \in 1..(k - 1) : ~vs[j].isRecommended].rawVersion
    ELSE IF Len(vs) = 0 THEN Undefined ELSE vs[1].rawVersion

\* lines 229-234: the argument of getCliForm().ask
AskArgs(vs) ==
    [message |-> "Select the OS version:", type |-> "list",
     choices |-> MenuChoices(vs), default |-> MenuDefault(vs)]

\* what the user does with the list prompt: abort it, accept the
\* pre-selection, or move to the k-th choice (k >= 1) and accept that
NoAnswer == -2
AbortAnswer == -1
AcceptAnswer == 0
UserAnswers(args) == AbortAnswer..Len(args.choices)

\* the value ask() resolves with for a user answer other than AbortAnswer
AskValue(args, answer) ==
    IF answer = AcceptAnswer THEN args.default
    ELSE args.choices[answer].value

(***************************************************************************)
(* OsDownloadCmd.run (wizard.js 140-173)                                   *)
(***************************************************************************)
\* line 148: options.version === 'menu-esr' || isESR(options.version);
\* esr is the answer of balena-image-manager's isESR for the token
IsEsrRequest_NoMenu(version, esr) == esr
IsEsrRequest(version, esr) == version = MenuEsrToken \/ esr

\* lines 146-148: whether checkLoggedIn is called
NeedsLogin(version, esr) == version # NoToken /\ IsEsrRequest(version, esr)

\* line 150: the outcomes of checkLoggedIn: it returns, throws
\* NotLoggedInError, or throws another error
LoginOutcomes == {"ok", "NotLoggedInError", "OtherError"}

\* lines 155-160: the error the command rethrows for a failed login check
LoginError(outcome) ==
    IF outcome = "NotLoggedInError" THEN "AuthRequiredForESR" ELSE outcome

(***************************************************************************)
(* downloadOSImage (cloud.ts 125-196)                                      *)
(***************************************************************************)
\* lines 136-138: OSVersion ? await resolveOSVersion(...) : 'default',
\* for a token that is not a menu token
VersionOrDefault_Resolved(OSVersion) ==
    resolveOSVersion(IF OSVersion # NoToken THEN OSVersion ELSE DefaultToken)
VersionOrDefault(OSVersion) ==
    IF OSVersion # NoToken THEN resolveOSVersion(OSVersion) ELSE DefaultToken

\* the streams balena-image-manager can hand out: a mime property and a
\* payload of MaxPayload bytes at most; "P" stands for the first byte of
\* a zip archive
MimeZip == "application/zip"
Mimes == {MimeZip, "application/octet-stream", "undefined"}
Bytes == {"P", "x"}
Payloads == UNION {[1..n -> Bytes] : n \in 0..MaxPayload}
Streams == [mime : Mimes, payload : Payloads]
NoStream == [mime |-> "undefined", payload |-> <<>>]
\* the values a 'balena-image-manager:resolved-version' event carries
DisplayVersions == {"served-as-requested", "served-range-match"}

\* lines 164-170: the 'progress' listener is attached after displayVersion
\* has been awaited
ProgressListening_FromOpen(pcNow) ==
    pcNow \in {"awaitVersion", "sink", "pipe", "drain"}
ProgressListening(pcNow) == pcNow \in {"sink", "pipe", "drain"}

\* lines 165-169: the 'progress' listener
ProgressRender(state) ==
    IF state # "null" THEN "bar.update" ELSE "spinner.start"

\* lines 180-186: the output sink
SinkKind_Sniff(stream) ==
    IF Len(stream.payload) > 0 /\ stream.payload[1] = "P"
    THEN "dir" ELSE "file"
SinkKind(stream) == IF stream.mime = MimeZip THEN "dir" ELSE "file"

(***************************************************************************)
(* The memoized lookups (cloud.ts 24-108)                                  *)
(***************************************************************************)
ServiceIds == {1, 2}
DeviceUUIDs == {"uuid-a", "uuid-b"}
\* selectDeviceFields / selectAppFields of a call: none, or a selection
FieldArgs == {"all", "selected"}
MemoFns == {"serviceIdToName", "getDeviceAndAppFromUUID",
            "getDeviceAndMaybeAppFromUUID"}

\* Number.prototype.toString on a service id
IdToString(id) == IF id = 1 THEN "1" ELSE "2"

\* lines 43, 74, 107: the resolvers; fields are the arguments they ignore
ServiceKey(id) == IdToString(id)
UUIDKey_WithFields(deviceUUID, fields) == <<deviceUUID, fields>>
UUIDKey(deviceUUID, fields) == deviceUUID

\* _.memoize: cache.has(key) / cache.get(key) on a cache of <<key, promise>>
CacheHas(c, key) == \E e \in c : e[1] = key
CacheGet(c, key) == (CHOOSE e \in c : e[1] = key)[2]
\* _.memoize: cache.set(key, result)
CacheSet(c, key, p) == {e \in c : e[1] # key} \cup {<<key, p>>}

\* what the remote can answer to sdk.pine.get (29-35): a service, null,
\* or an error
ServiceAnswers == {"service", "null", "error"}
\* what it can answer to sdk.models.device.get (99): a device with or
\* without an accessible application, or an error
DeviceAnswers == {"device+app", "device", "error"}

\* lines 37-40: the value of serviceIdToName for a settled query
ServiceOutcome(ans) ==
    IF ans = "error" THEN [status |-> "rejected", value |-> "error"]
    ELSE IF ans = "service"
         THEN [status |-> "fulfilled", value |-> "service_name"]
         ELSE [status |-> "fulfilled", value |-> "undefined"]

\* lines 99-104: the value of getDeviceAndMaybeAppFromUUID
MaybeAppOutcome(ans) ==
    IF ans = "error" THEN [status |-> "rejected", value |-> "error"]
    ELSE IF ans = "device+app"
         THEN [status |-> "fulfilled", value |-> "[device, app]"]
         ELSE [status |-> "fulfilled", value |-> "[device, undefined]"]

\* lines 59-71: the value of getDeviceAndAppFromUUID, given the outcome
\* of the lookup it awaits
AppOutcome(awaited) ==
    IF awaited.status = "rejected" THEN awaited
    ELSE IF awaited.value = "[device, undefined]"
         THEN [status |-> "rejected", value |-> "ExpectedError"]
         ELSE awaited

(***************************************************************************)
(* State                                                                   *)
(***************************************************************************)
VARIABLES
    rvPc,       \* resolver run: "call" before resolveOSVersion, "ret" after
    rvToken,    \* its version argument
    rvOut,      \* its return value
    cPc,        \* catalog run: "call" before getFormattedOsVersions, "ret" after
    cReq,       \* its arguments and the SDK's response
    cOut,       \* its outcome
    \* --- the 'os download' command ---
    pc,             \* where the command's run is
    deviceType,     \* params.type
    version,        \* options.version (NoToken: not given)
    esrClass,       \* isESR(options.version)
    login,          \* the outcome of checkLoggedIn, "unchecked" before
    calls,          \* the collaborators called so far
    msgs,           \* the console messages emitted so far
    result,         \* the outcome of the command
    resp,           \* the response of getAvailableOsVersions
    vs,             \* selectOSVersionFromMenu's list
    askArgs,        \* the prompt shown
    answer,         \* what the user did with it
    picked,         \* the value ask() resolved with
    OSVersion,      \* downloadOSImage's OSVersion after line 138
    getArgs,        \* the arguments of each manager.get call
    zlibFlush,      \* process.env.ZLIB_FLUSH
    stream,         \* the stream manager.get returned
    sState,         \* "none", "live", "ended" or "errored"
    delivered,      \* payload bytes the stream has written to the sink
    dvPromise,      \* the promise of lines 151-154
    displayVersion, \* its value
    rendered,       \* the bar/spinner methods called so far
    progressDropped,\* a 'progress' event was emitted with no listener
    sink,           \* "none", "file" (createWriteStream) or "dir" (Extract)
    sinksCreated,   \* sinks created so far
    sinkState,      \* "none", "open", "ending"
    written,        \* the bytes written to the sink
    \* --- the memoized lookups ---
    cache,          \* each memoized function's cache: <<key, promise>> pairs
    promises,       \* the promises created so far
    callLog,        \* the calls of the memoized functions so far
    \* --- the release commands ---
    relPc,          \* where the release command's run is
    relArgs,        \* its command, arguments and flags
    relLog,         \* the console.log lines printed so far, in order
    relEffect,      \* what the command has done: file written, bundle applied
    relResult       \* "pending", "resolved" or "rejected"

rvVars == <<rvPc, rvToken, rvOut>>
cVars == <<cPc, cReq, cOut>>
cmdVars == <<pc, deviceType, version, esrClass, login, calls, msgs, result>>
menuVars == <<resp, vs, askArgs, answer, picked>>
openVars == <<OSVersion, getArgs, zlibFlush>>
streamVars == <<stream, sState, delivered, dvPromise, displayVersion,
                rendered, progressDropped>>
sinkVars == <<sink, sinksCreated, sinkState, written>>
dlVars == <<cmdVars, menuVars, openVars, streamVars, sinkVars>>
memoVars == <<cache, promises, callLog>>
relVars == <<relPc, relArgs, relLog, relEffect, relResult>>
vars == <<rvVars, cVars, dlVars, memoVars, relVars>>

\* values of the variables a specification does not use
NoOutcome == [ok |-> FALSE, versions |-> <<>>, error |-> "none",
              deviceType |-> ""]
NoRequest == [deviceType |-> "", esr |-> FALSE,
              resp |-> [present |-> FALSE, versions |-> <<>>]]
NoResponse == [present |-> FALSE, versions |-> <<>>]
NoAsk == [message |-> "", type |-> "", choices |-> <<>>,
          default |-> Undefined]
Pending == [status |-> "pending", error |-> "none", names |-> "",
            deviceTypeSlug |-> ""]
NoRelArgs == [cmd |-> "none", commitOrId |-> "", output |-> "",
              bundle |-> "", fleetType |-> "undefined", fleet |-> ""]
RelIdle ==
    /\ relPc = "idle"
    /\ relArgs = NoRelArgs
    /\ relLog = <<>>
    /\ relEffect = "none"
    /\ relResult = "pending"
MemoIdle ==
    /\ cache = [f \in MemoFns |-> {}]
    /\ promises = <<>>
    /\ callLog = <<>>
RvIdle == rvPc = "idle" /\ rvToken = <<>> /\ rvOut = <<>>
CIdle == cPc = "idle" /\ cReq = NoRequest /\ cOut = NoOutcome
MenuIdle ==
    /\ resp = NoResponse
    /\ vs = <<>>
    /\ askArgs = NoAsk
    /\ answer = NoAnswer
    /\ picked = Undefined
StreamIdle ==
    /\ stream = NoStream
    /\ sState = "none"
    /\ delivered = 0
    /\ dvPromise = "none"
    /\ displayVersion = "undefined"
    /\ rendered = {}
    /\ progressDropped = FALSE
SinkIdle ==
    /\ sink = "none"
    /\ sinksCreated = 0
    /\ sinkState = "none"
    /\ written = <<>>
DlIdle ==
    /\ pc = "idle"
    /\ deviceType = ""
    /\ version = NoToken
    /\ esrClass = FALSE
    /\ login = "unchecked"
    /\ calls = {}
    /\ msgs = {}
    /\ result = Pending
    /\ OSVersion = Undefined
    /\ getArgs = <<>>
    /\ zlibFlush = "unset"
    /\ MenuIdle
    /\ StreamIdle
    /\ SinkIdle

(***************************************************************************)
(* Resolver specification: resolveOSVersion applied to every token         *)
(***************************************************************************)
RvInit ==
    /\ rvPc = "call"
    /\ rvToken \in ResolverTokens
    /\ rvOut = <<>>
    /\ CIdle
    /\ DlIdle
    /\ MemoIdle
    /\ RelIdle

RvResolve ==
    /\ rvPc = "call"
    /\ ~IsMenuToken(rvToken)
    /\ rvOut' = resolveOSVersion(rvToken)
    /\ rvPc' = "ret"
    /\ UNCHANGED <<rvToken, cVars, dlVars, memoVars, relVars>>

RvNext == RvResolve

SpecResolve == RvInit /\ [][RvNext]_vars

\* C3: for every token other than 'menu'/'menu-esr', resolveOSVersion
\* returns the token less exactly one leading 'v' (if present), unchanged
\* when that ends in '.dev' or '.prod' and with '.prod' appended otherwise;
\* the result ends in exactly one of '.dev'/'.prod'; 'latest', 'default'
\* and 'recommended' get '.prod' like any other token, and the spec's two
\* examples come out as stated.
C3_ResolveSuffixPolicy ==
    rvPc = "ret" =>
        LET t1 == IF Len(rvToken) > 0 /\ Head(rvToken) = "v"
                  THEN Tail(rvToken) ELSE rvToken
            suffixed == EndsWith(t1, DotDev) \/ EndsWith(t1, DotProd)
            ex == <<"2", ".", "6", "0", ".", "1", "+", "r", "e", "v", "1">>
        IN /\ suffixed => rvOut = t1
           /\ ~suffixed => rvOut = t1 \o DotProd
           /\ EndsWith(rvOut, DotDev) # EndsWith(rvOut, DotProd)
           /\ rvToken = <<"v">> \o ex => rvOut = ex \o DotProd
           /\ rvToken = ex \o DotDev => rvOut = rvToken
           /\ rvToken \in { <<"l", "a", "t", "e", "s", "t">>, DefaultToken,
                            <<"r", "e", "c", "o", "m", "m", "e", "n", "d", "e", "d">> }
                  => rvOut = rvToken \o DotProd

\* a 'v'-prefixed token without suffix has been resolved
C3_Witness ==
    /\ rvPc = "ret"
    /\ rvToken = <<"v", "2", ".", "6", "0", ".", "1", "+", "r", "e", "v", "1">>
    /\ rvOut = <<"2", ".", "6", "0", ".", "1", "+", "r", "e", "v", "1">> \o DotProd

(***************************************************************************)
(* Catalog specification: getFormattedOsVersions on every response         *)
(***************************************************************************)
CInit ==
    /\ cPc = "call"
    /\ cReq \in [deviceType : DeviceTypes, esr : BOOLEAN,
                  resp : ResponsesWith(Labels)]
    /\ cOut = NoOutcome
    /\ RvIdle
    /\ DlIdle
    /\ MemoIdle
    /\ RelIdle

CFetch ==
    /\ cPc = "call"
    /\ cOut' = getFormattedOsVersions(cReq.resp, cReq.deviceType, cReq.esr)
    /\ cPc' = "ret"
    /\ UNCHANGED <<cReq, rvVars, dlVars, memoVars, relVars>>

CNext == CFetch

SpecCatalog == CInit /\ [][CNext]_vars

\* the indices of the catalog entries of the requested partition
C6_Partition ==
    { i \in 1..Len(LookupDeviceType(cReq.resp)) :
        LookupDeviceType(cReq.resp)[i].osType =
            (IF cReq.esr THEN "esr" ELSE "default") }

\* C6: when the requested partition is non-empty, getFormattedOsVersions
\* returns exactly the catalog entries of that osType, in catalog order,
\* each with formattedVersion 'v' + rawVersion when the upstream label has
\* no space and 'v' + rawVersion + the label from its first space
\* otherwise; every returned formattedVersion starts with 'v'.
C6_FetchFiltersAndFormats ==
    (cPc = "ret" /\ C6_Partition # {}) =>
        LET cat == LookupDeviceType(cReq.resp)
            nth(k) == CHOOSE i \in C6_Partition :
                          Cardinality({j \in C6_Partition : j <= i}) = k
            spaces(l) == {p \in 1..Len(l) : l[p] = " "}
            firstSpace(l) == CHOOSE p \in spaces(l) :
                                 \A q \in spaces(l) : p <= q
            label(v) ==
                IF spaces(v.formattedVersion) = {}
                THEN <<"v">> \o v.rawVersion
                ELSE <<"v">> \o v.rawVersion
                     \o SubSeq(v.formattedVersion,
                               firstSpace(v.formattedVersion),
                               Len(v.formattedVersion))
        IN /\ cOut.ok
           /\ Len(cOut.versions) = Cardinality(C6_Partition)
           /\ \A k \in 1..Len(cOut.versions) :
                  /\ cOut.versions[k].rawVersion = cat[nth(k)].rawVersion
                  /\ cOut.versions[k].osType = cat[nth(k)].osType
                  /\ cOut.versions[k].osType =
                         (IF cReq.esr THEN "esr" ELSE "default")
                  /\ cOut.versions[k].isRecommended = cat[nth(k)].isRecommended
                  /\ cOut.versions[k].formattedVersion = label(cat[nth(k)])
                  /\ Head(cOut.versions[k].formattedVersion) = "v"

\* a two-entry partition of a mixed catalog has been returned, one label
\* with a space and one without
C6_Witness ==
    /\ cPc = "ret"
    /\ cOut.ok
    /\ Len(LookupDeviceType(cReq.resp)) > Len(cOut.versions)
    /\ \E k \in 1..Len(cOut.versions) :
           cOut.versions[k].formattedVersion = <<"v", "A", " ", "y">>

(***************************************************************************)
(* Command specification: one run of 'os download'                         *)
(***************************************************************************)
Init ==
    /\ pc = "run"
    /\ deviceType \in DeviceTypes
    /\ version \in CommandTokens
    /\ esrClass \in (IF version = NoToken THEN {FALSE} ELSE BOOLEAN)
    /\ login = "unchecked"
    /\ calls = {}
    /\ msgs = {}
    /\ result = Pending
    /\ OSVersion = Undefined
    /\ getArgs = <<>>
    /\ zlibFlush = "unset"
    /\ MenuIdle
    /\ StreamIdle
    /\ SinkIdle
    /\ RvIdle
    /\ CIdle
    /\ MemoIdle
    /\ RelIdle

\* an error leaves downloadOSImage and passes the catch of wizard.js
\* 169-172, which sets e.deviceTypeSlug and rethrows
Throw(error, names) ==
    /\ pc' = "failed"
    /\ result' = [status |-> "rejected", error |-> error, names |-> names,
                  deviceTypeSlug |-> deviceType]

\* wizard.js 141-165: parse, the login check for ESR requests, the import
\* of utils/cloud
Run ==
    /\ pc = "run"
    /\ IF NeedsLogin(version, esrClass)
       THEN \E outcome \in LoginOutcomes :
               /\ login' = outcome
               /\ calls' = calls \cup {"checkLoggedIn"}
               /\ IF outcome = "ok"
                  THEN pc' = "download" /\ UNCHANGED result
                  ELSE /\ pc' = "failed"
                       /\ result' = [status |-> "rejected",
                                     error |-> LoginError(outcome),
                                     names |-> "", deviceTypeSlug |-> ""]
       ELSE /\ pc' = "download"
            /\ UNCHANGED <<login, calls, result>>
    /\ UNCHANGED <<deviceType, version, esrClass, msgs>>
    /\ UNCHANGED <<menuVars, openVars, streamVars, sinkVars, rvVars, cVars, memoVars, relVars>>

\* wizard.js 168 and cloud.ts 130-138, 202-215: downloadOSImage up to the
\* resolved version, or up to the catalog query of the menu path
Download ==
    /\ pc = "download"
    /\ msgs' = msgs \cup {"Getting device operating system"}
               \cup (IF version = NoToken
                     THEN {"OS version not specified"} ELSE {})
    /\ IF version # NoToken /\ IsMenuToken(version)
       THEN /\ calls' = calls \cup {"downloadOSImage", "resolveOSVersion",
                                     "getAvailableOsVersions"}
            /\ pc' = "catalog"
            /\ UNCHANGED OSVersion
       ELSE /\ calls' = calls \cup {"downloadOSImage"}
                        \cup (IF version # NoToken
                              THEN {"resolveOSVersion"} ELSE {})
            /\ OSVersion' = VersionOrDefault(version)
            /\ pc' = "open"
    /\ UNCHANGED <<deviceType, version, esrClass, login, result, getArgs,
                   zlibFlush>>
    /\ UNCHANGED <<menuVars, streamVars, sinkVars, rvVars, cVars, memoVars, relVars>>

\* cloud.ts 222-234 (with 247-266): the catalog answers; the list is
\* filtered and reformatted, and either the error is thrown or the prompt
\* is shown
CatalogReturn ==
    /\ pc = "catalog"
    /\ \E r \in ResponsesWith(CommandLabels) :
          LET got == getFormattedOsVersions(r, deviceType,
                                            version = MenuEsrToken)
          IN /\ resp' = r
             /\ IF got.ok
                THEN /\ vs' = got.versions
                     /\ askArgs' = AskArgs(got.versions)
                     /\ calls' = calls \cup {"ask"}
                     /\ pc' = "prompt"
                     /\ UNCHANGED result
                ELSE /\ Throw(got.error, got.deviceType)
                     /\ UNCHANGED <<vs, askArgs, calls>>
    /\ UNCHANGED <<deviceType, version, esrClass, login, msgs, answer,
                   picked>>
    /\ UNCHANGED <<openVars, streamVars, sinkVars, rvVars, cVars, memoVars, relVars>>

\* cloud.ts 229-234: the user answers the prompt and ask() settles
PromptAnswer ==
    /\ pc = "prompt"
    /\ \E a \in UserAnswers(askArgs) :
          /\ answer' = a
          /\ IF a = AbortAnswer
             THEN /\ Throw("PromptCancelled", "")
                  /\ UNCHANGED picked
             ELSE /\ picked' = AskValue(askArgs, a)
                  /\ pc' = "menuReturn"
                  /\ UNCHANGED result
    /\ UNCHANGED <<deviceType, version, esrClass, login, calls, msgs>>
    /\ UNCHANGED <<resp, vs, askArgs>>
    /\ UNCHANGED <<openVars, streamVars, sinkVars, rvVars, cVars, memoVars, relVars>>

\* cloud.ts 203 and 136-138: selectOSVersionFromMenu and resolveOSVersion
\* return the picked value, which becomes OSVersion; their locals are gone
MenuReturn ==
    /\ pc = "menuReturn"
    /\ OSVersion' = picked
    /\ resp' = NoResponse
    /\ vs' = <<>>
    /\ askArgs' = NoAsk
    /\ answer' = NoAnswer
    /\ pc' = "open"
    /\ UNCHANGED <<deviceType, version, esrClass, login, calls, msgs, result>>
    /\ UNCHANGED <<picked, getArgs, zlibFlush>>
    /\ UNCHANGED <<streamVars, sinkVars, rvVars, cVars, memoVars, relVars>>

\* cloud.ts 146-154: manager.get is called; it rejects, or returns a
\* stream on which the 'error' and 'resolved-version' listeners are set
OpenStream ==
    /\ pc = "open"
    /\ calls' = calls \cup {"manager.get"}
    /\ zlibFlush' = "Z_NO_FLUSH"
    /\ getArgs' = Append(getArgs, <<deviceType, OSVersion>>)
    /\ \/ /\ Throw("StreamOpenError", "")
          /\ UNCHANGED streamVars
       \/ /\ \E st \in Streams : stream' = st
          /\ sState' = "live"
          /\ dvPromise' = "pending"
          /\ pc' = "awaitVersion"
          /\ UNCHANGED <<result, delivered, displayVersion, rendered,
                         progressDropped>>
    /\ UNCHANGED <<deviceType, version, esrClass, login, msgs, OSVersion>>
    /\ UNCHANGED <<menuVars, sinkVars, rvVars, cVars, memoVars, relVars>>

\* the positions of downloadOSImage at which the stream is held. The
\* stream is a Node Readable: it emits nothing after 'error' or 'end',
\* and 'end' only once its payload has been consumed, that is, piped.
Transferring == pc \in {"awaitVersion", "sink", "pipe", "drain"}

\* the stream emits 'balena-image-manager:resolved-version'; the listener
\* of line 153 resolves the promise (a settled promise stays as it is)
StreamResolvedVersion ==
    /\ Transferring
    /\ sState = "live"
    /\ dvPromise = "pending"
    /\ dvPromise' = "resolved"
    /\ \E dv \in DisplayVersions : displayVersion' = dv
    /\ UNCHANGED <<stream, sState, delivered, rendered, progressDropped>>
    /\ UNCHANGED <<cmdVars, menuVars, openVars, sinkVars, rvVars, cVars, memoVars, relVars>>

\* the stream emits 'progress' with a state object or null; the listener
\* of lines 164-170 runs if it is attached
StreamProgress ==
    /\ Transferring
    /\ sState = "live"
    /\ \E state \in {"null", "state"} :
          IF ProgressListening(pc)
          THEN /\ rendered' = rendered \cup {ProgressRender(state)}
               /\ UNCHANGED progressDropped
          ELSE /\ progressDropped' = TRUE
               /\ UNCHANGED rendered
    /\ UNCHANGED <<stream, sState, delivered, dvPromise, displayVersion>>
    /\ UNCHANGED <<cmdVars, menuVars, openVars, sinkVars, rvVars, cVars, memoVars, relVars>>

\* the stream emits 'error' and is over; the listener of line 152 rejects
\* the promise if it is pending. pipe() does not forward a source error
\* to the sink, so nothing else hears it.
StreamError ==
    /\ Transferring
    /\ sState = "live"
    /\ sState' = "errored"
    /\ dvPromise' = IF dvPromise = "pending" THEN "rejected" ELSE dvPromise
    /\ UNCHANGED <<stream, delivered, displayVersion, rendered,
                   progressDropped>>
    /\ UNCHANGED <<cmdVars, menuVars, openVars, sinkVars, rvVars, cVars, memoVars, relVars>>

\* cloud.ts 151-174: the await of displayVersion ends: a rejection leaves
\* downloadOSImage, a value lets it build the bar and the spinner and
\* attach the 'progress' and 'end' listeners
AwaitedVersion ==
    /\ pc = "awaitVersion"
    /\ dvPromise \in {"resolved", "rejected"}
    /\ IF dvPromise = "rejected"
       THEN Throw("StreamError", "")
       ELSE pc' = "sink" /\ UNCHANGED result
    /\ UNCHANGED <<deviceType, version, esrClass, login, calls, msgs>>
    /\ UNCHANGED <<menuVars, openVars, streamVars, sinkVars, rvVars, cVars, memoVars, relVars>>

\* cloud.ts 179-186: the sink is created after the import of
\* node-unzip-2 or fs
CreateSink ==
    /\ pc = "sink"
    /\ sink' = SinkKind(stream)
    /\ sinksCreated' = sinksCreated + 1
    /\ sinkState' = "open"
    /\ pc' = "pipe"
    /\ UNCHANGED written
    /\ UNCHANGED <<deviceType, version, esrClass, login, calls, msgs, result>>
    /\ UNCHANGED <<menuVars, openVars, streamVars, rvVars, cVars, memoVars, relVars>>

\* cloud.ts 188-189: stream.pipe(output), and streamToPromise waits for
\* the sink's 'finish' or 'error'
PipeStream ==
    /\ pc = "pipe"
    /\ pc' = "drain"
    /\ UNCHANGED <<deviceType, version, esrClass, login, calls, msgs, result>>
    /\ UNCHANGED <<menuVars, openVars, streamVars, sinkVars, rvVars, cVars, memoVars, relVars>>

\* the piped stream hands its next byte to the sink, which takes it or
\* fails (a write error, a decompression error): line 189 then throws
StreamData ==
    /\ pc = "drain"
    /\ sState = "live"
    /\ delivered < Len(stream.payload)
    /\ delivered' = delivered + 1
    /\ \/ /\ written' = Append(written, stream.payload[delivered + 1])
          /\ UNCHANGED <<pc, result>>
       \/ /\ Throw("SinkError", "")
          /\ UNCHANGED written
    /\ UNCHANGED <<deviceType, version, esrClass, login, calls, msgs>>
    /\ UNCHANGED <<stream, sState, dvPromise, displayVersion, rendered,
                   progressDropped>>
    /\ UNCHANGED <<sink, sinksCreated, sinkState>>
    /\ UNCHANGED <<menuVars, openVars, rvVars, cVars, memoVars, relVars>>

\* the piped stream has handed over its payload and emits 'end': the
\* listener of lines 172-174 stops the spinner and pipe() ends the sink
StreamEnd ==
    /\ pc = "drain"
    /\ sState = "live"
    /\ delivered = Len(stream.payload)
    /\ sState' = "ended"
    /\ rendered' = rendered \cup {"spinner.stop"}
    /\ sinkState' = "ending"
    /\ UNCHANGED <<stream, delivered, dvPromise, displayVersion,
                   progressDropped>>
    /\ UNCHANGED <<sink, sinksCreated, written>>
    /\ UNCHANGED <<cmdVars, menuVars, openVars, rvVars, cVars, memoVars, relVars>>

\* cloud.ts 189-195: the ended sink emits 'finish' (the success message,
\* return outputPath) or 'error' (line 189 throws)
SinkSettles ==
    /\ pc = "drain"
    /\ sinkState = "ending"
    /\ \/ /\ pc' = "done"
          /\ msgs' = msgs \cup {"downloaded successfully"}
          /\ result' = [status |-> "returned", error |-> "none",
                        names |-> "", deviceTypeSlug |-> ""]
       \/ /\ Throw("SinkError", "")
          /\ UNCHANGED msgs
    /\ UNCHANGED <<deviceType, version, esrClass, login, calls>>
    /\ UNCHANGED <<menuVars, openVars, streamVars, sinkVars, rvVars, cVars, memoVars, relVars>>

Next ==
    \/ Run
    \/ Download
    \/ CatalogReturn
    \/ PromptAnswer
    \/ MenuReturn
    \/ OpenStream
    \/ StreamResolvedVersion
    \/ StreamProgress
    \/ StreamError
    \/ AwaitedVersion
    \/ CreateSink
    \/ PipeStream
    \/ StreamData
    \/ StreamEnd
    \/ SinkSettles

Spec == Init /\ [][Next]_vars

\* the progress renderer: bar.update and spinner.start
ProgressCalls == {"bar.update", "spinner.start"}

\* C1: the progress renderer is never invoked before 'resolved-version'
\* has been observed; a stream that emits 'error' first makes download
\* fail with the renderer never invoked and no sink created.
C1_NoProgressBeforeResolvedVersion ==
    /\ rendered \cap ProgressCalls # {} => dvPromise = "resolved"
    /\ dvPromise = "rejected" =>
          /\ rendered = {}
          /\ sink = "none" /\ sinksCreated = 0 /\ written = <<>>
          /\ pc \in {"awaitVersion", "failed"}
          /\ result.status # "returned"
          /\ pc = "failed" => /\ result.status = "rejected"
                              /\ result.error = "StreamError"

\* download has failed on a stream that emitted 'progress' and then
\* 'error' without 'resolved-version'
C1_Witness ==
    /\ pc = "failed"
    /\ dvPromise = "rejected"
    /\ progressDropped
    /\ result.error = "StreamError"

\* C2 (as claimed): every error of the transfer - of manager.get, of the
\* stream after 'resolved-version', of the sink - ends the download in
\* failure: once nothing more can happen the call has rejected, and it
\* never returns nor prints the success message.
C2_EveryTransferErrorRejects ==
    LET failedSomewhere ==
            \/ sState = "errored"
            \/ result.error \in {"StreamOpenError", "StreamError",
                                 "SinkError"}
    IN failedSomewhere =>
          /\ result.status # "returned"
          /\ "downloaded successfully" \notin msgs
          /\ ~(ENABLED Next) => result.status = "rejected"

\* the indices of resp's entries of the partition the menu token asks for
MenuPartition ==
    { i \in 1..Len(LookupDeviceType(resp)) :
        LookupDeviceType(resp)[i].osType =
            (IF version = MenuEsrToken THEN "esr" ELSE "default") }

\* C4: for 'menu'/'menu-esr' the picker is asked for the partition
\* esr = (token = 'menu-esr'); its choices are that partition's entries in
\* catalog order with rawVersion as value; the pre-selection is the first
\* recommended entry's rawVersion, or the first entry's when none is
\* recommended; the selection is returned verbatim (neither 'v' stripped
\* nor a suffix appended) and is the version manager.get is called with.
C4_MenuReturnsSelectionVerbatim ==
    /\ pc \in {"prompt", "menuReturn"} =>
          LET cat == LookupDeviceType(resp)
              nth(k) == CHOOSE i \in MenuPartition :
                            Cardinality({j \in MenuPartition : j <= i}) = k
              recommended == {k \in 1..Len(askArgs.choices) :
                                 cat[nth(k)].isRecommended}
          IN /\ IsMenuToken(version)
             /\ Len(askArgs.choices) = Cardinality(MenuPartition)
             /\ Len(askArgs.choices) > 0
             /\ \A k \in 1..Len(askArgs.choices) :
                    /\ askArgs.choices[k].value = cat[nth(k)].rawVersion
                    /\ Head(askArgs.choices[k].name) = "v"
             /\ recommended # {} =>
                    \E k \in recommended :
                       /\ \A j \in recommended : k <= j
                       /\ askArgs.default = askArgs.choices[k].value
             /\ recommended = {} =>
                    askArgs.default = askArgs.choices[1].value
    /\ pc = "menuReturn" =>
          /\ answer = AcceptAnswer => picked = askArgs.default
          /\ answer > AcceptAnswer => picked = askArgs.choices[answer].value
          /\ ( /\ Len(vs) = 2
               /\ vs[1].rawVersion = <<"A">> /\ ~vs[1].isRecommended
               /\ vs[2].rawVersion = <<"B">> /\ vs[2].isRecommended
               /\ answer = AcceptAnswer ) => picked = <<"B">>
    /\ (IsMenuToken(version) /\ pc \notin {"run", "download", "catalog",
                                           "prompt", "menuReturn", "failed"})
          => OSVersion = picked
    /\ (IsMenuToken(version) /\ getArgs # <<>>) => getArgs[1][2] = picked

\* the user accepted the pre-selection of [A, B recommended]
C4_Witness ==
    /\ pc = "menuReturn"
    /\ version = MenuToken
    /\ Len(vs) = 2
    /\ vs[1].rawVersion = <<"A">> /\ ~vs[1].isRecommended
    /\ vs[2].rawVersion = <<"B">> /\ vs[2].isRecommended
    /\ answer = AcceptAnswer
    /\ picked = <<"B">>

\* C5 (as claimed): with no token the image store is opened with the
\* result of resolving 'default', as for an explicit 'default'.
C5_AbsentTokenIsResolvedDefault ==
    (version = NoToken /\ getArgs # <<>>) =>
        /\ "OS version not specified" \in msgs
        /\ getArgs[1][2] = resolveOSVersion(DefaultToken)

\* C5 (amended): with no token downloadOSImage emits the 'OS version not
\* specified' diagnostic and opens the image store with the literal
\* 'default', without calling resolveOSVersion; an explicit 'default' is
\* resolved and the store is opened with 'default.prod'. The diagnostic
\* is emitted only when no token is given.
C5_AbsentTokenOpensLiteralDefault ==
    /\ (version = NoToken /\ pc \notin {"run", "download"}) =>
          /\ "OS version not specified" \in msgs
          /\ "resolveOSVersion" \notin calls
          /\ OSVersion = DefaultToken
    /\ (version = NoToken /\ getArgs # <<>>) =>
          getArgs = << <<deviceType, DefaultToken>> >>
    /\ (version = DefaultToken /\ getArgs # <<>>) =>
          /\ getArgs = << <<deviceType, DefaultToken \o DotProd>> >>
          /\ "resolveOSVersion" \in calls
    /\ version # NoToken => "OS version not specified" \notin msgs

\* the image store has been opened for a download without token
C5_Witness ==
    /\ version = NoToken
    /\ pc = "awaitVersion"
    /\ getArgs = << <<deviceType, DefaultToken>> >>

\* C7: when the menu path fails - the partition is empty (the error names
\* the device type and no prompt is shown, also when the device type is
\* missing from the response) or the user aborts the prompt - the command
\* ends in that error: no version is produced, manager.get is never called
\* and no sink is created or written.
C7_MenuFailurePropagates ==
    /\ result.error \in {"NoVersionsFound", "PromptCancelled"} =>
          /\ pc = "failed"
          /\ result.status = "rejected"
          /\ OSVersion = Undefined
          /\ picked = Undefined
          /\ getArgs = <<>>
          /\ "manager.get" \notin calls
          /\ sState = "none"
          /\ sink = "none" /\ sinksCreated = 0 /\ written = <<>>
    /\ result.error = "NoVersionsFound" =>
          /\ result.names = deviceType
          /\ MenuPartition = {}
          /\ "ask" \notin calls
    /\ result.error = "PromptCancelled" => answer = AbortAnswer
    /\ ( /\ "getAvailableOsVersions" \in calls
         /\ pc \in {"prompt", "menuReturn", "failed"}
         /\ "manager.get" \notin calls
         /\ MenuPartition = {} ) =>
          /\ result.error = "NoVersionsFound"
          /\ "ask" \notin calls
    /\ answer = AbortAnswer => result.error = "PromptCancelled"
    /\ (IsMenuToken(version) /\ "manager.get" \in calls) =>
          /\ OSVersion # Undefined
          /\ OSVersion # <<>>

\* a catalog with entries, none of the requested partition, has failed
\* the command
C7_Witness ==
    /\ pc = "failed"
    /\ result.error = "NoVersionsFound"
    /\ resp.present
    /\ Len(resp.versions) > 0

\* C8: the sink is chosen from the stream's mime alone: the unzip
\* extractor for 'application/zip', a file write stream for every other
\* value or none; a file sink that finished holds the payload byte for
\* byte; one sink is created per download, whatever the payload.
C8_SinkFollowsMime ==
    /\ sinksCreated <= 1
    /\ sink # "none" <=> sinksCreated = 1
    /\ pc \in {"pipe", "drain", "done"} => sinksCreated = 1
    /\ sink # "none" => (sink = "dir" <=> stream.mime = "application/zip")
    /\ sink # "none" => sink \in {"dir", "file"}
    /\ (pc = "done" /\ sink = "file") => written = stream.payload
    /\ sink = "file" =>
          /\ Len(written) <= Len(stream.payload)
          /\ written = SubSeq(stream.payload, 1, Len(written))

\* a payload that starts like a zip archive, declared as something else,
\* has been written to a file
C8_Witness ==
    /\ pc = "done"
    /\ sink = "file"
    /\ stream.mime = "application/octet-stream"
    /\ Len(stream.payload) = MaxPayload
    /\ stream.payload[1] = "P"
    /\ written = stream.payload

\* C9: when --version is 'menu-esr' or classified as ESR, checkLoggedIn
\* runs and succeeds before downloadOSImage is invoked; if the user is not
\* logged in the command fails with the authentication-required error and
\* nothing else is called; with no --version or a non-ESR token no login
\* check is made.
C9_EsrRequiresLogin ==
    LET esrRequest == version = MenuEsrToken \/ (version # NoToken /\ esrClass)
    IN /\ (esrRequest /\ pc # "run") =>
             "checkLoggedIn" \in calls /\ login # "unchecked"
       /\ (esrRequest /\ "downloadOSImage" \in calls) => login = "ok"
       /\ login \in {"NotLoggedInError", "OtherError"} =>
             /\ pc = "failed"
             /\ result.status = "rejected"
             /\ calls = {"checkLoggedIn"}
             /\ getArgs = <<>> /\ askArgs = NoAsk /\ OSVersion = Undefined
       /\ login = "NotLoggedInError" => result.error = "AuthRequiredForESR"
       /\ ~esrRequest => login = "unchecked" /\ "checkLoggedIn" \notin calls

\* 'menu-esr' without a login has failed
C9_Witness ==
    /\ pc = "failed"
    /\ version = MenuEsrToken
    /\ ~esrClass
    /\ login = "NotLoggedInError"
    /\ result.error = "AuthRequiredForESR"

(***************************************************************************)
(* Memo specification: calls of the memoized lookups in one process        *)
(***************************************************************************)
MemoInit ==
    /\ MemoIdle
    /\ RelIdle
    /\ RvIdle
    /\ CIdle
    /\ DlIdle

\* a call as the log keeps it
Call(fn, key, fields, p) ==
    [fn |-> fn, key |-> key, fields |-> fields, promise |-> p]

\* a promise: of a remote query (kind "service" or "device"), or of
\* getDeviceAndAppFromUUID's body (kind "app"), which awaits another
NewPromise(kind, key, fields, awaits) ==
    [kind |-> kind, key |-> key, fields |-> fields, awaits |-> awaits,
     status |-> "pending", value |-> "none"]

\* cloud.ts 24-44: serviceIdToName(sdk, serviceId)
CallServiceIdToName ==
    /\ Len(callLog) < MaxCalls
    /\ \E id \in ServiceIds :
          LET fn == "serviceIdToName"
              key == ServiceKey(id)
              p == Len(promises) + 1
          IN IF CacheHas(cache[fn], key)
             THEN /\ callLog' = Append(callLog,
                          Call(fn, id, "all", CacheGet(cache[fn], key)))
                  /\ UNCHANGED <<cache, promises>>
             ELSE /\ promises' = Append(promises,
                          NewPromise("service", id, "all", 0))
                  /\ cache' = [cache EXCEPT ![fn] = CacheSet(@, key, p)]
                  /\ callLog' = Append(callLog, Call(fn, id, "all", p))
    /\ UNCHANGED <<rvVars, cVars, dlVars, relVars>>

\* cloud.ts 84-108: getDeviceAndMaybeAppFromUUID(sdk, deviceUUID, fields)
CallGetDeviceAndMaybeApp ==
    /\ Len(callLog) < MaxCalls
    /\ \E uuid \in DeviceUUIDs, fields \in FieldArgs :
          LET fn == "getDeviceAndMaybeAppFromUUID"
              key == UUIDKey(uuid, fields)
              p == Len(promises) + 1
          IN IF CacheHas(cache[fn], key)
             THEN /\ callLog' = Append(callLog,
                          Call(fn, uuid, fields, CacheGet(cache[fn], key)))
                  /\ UNCHANGED <<cache, promises>>
             ELSE /\ promises' = Append(promises,
                          NewPromise("device", uuid, fields, 0))
                  /\ cache' = [cache EXCEPT ![fn] = CacheSet(@, key, p)]
                  /\ callLog' = Append(callLog, Call(fn, uuid, fields, p))
    /\ UNCHANGED <<rvVars, cVars, dlVars, relVars>>

\* cloud.ts 52-75: getDeviceAndAppFromUUID(sdk, deviceUUID, fields); on a
\* miss its body calls getDeviceAndMaybeAppFromUUID (59-64) before it
\* first awaits
CallGetDeviceAndApp ==
    /\ Len(callLog) < MaxCalls
    /\ \E uuid \in DeviceUUIDs, fields \in FieldArgs :
          LET fn == "getDeviceAndAppFromUUID"
              inner == "getDeviceAndMaybeAppFromUUID"
              key == UUIDKey(uuid, fields)
              hitInner == CacheHas(cache[inner], key)
              n == Len(promises)
              pInner == IF hitInner THEN CacheGet(cache[inner], key)
                        ELSE n + 1
              p == IF hitInner THEN n + 1 ELSE n + 2
          IN IF CacheHas(cache[fn], key)
             THEN /\ callLog' = Append(callLog,
                          Call(fn, uuid, fields, CacheGet(cache[fn], key)))
                  /\ UNCHANGED <<cache, promises>>
             ELSE /\ promises' =
                        (IF hitInner THEN promises
                         ELSE Append(promises,
                                  NewPromise("device", uuid, fields, 0)))
                        \o <<NewPromise("app", uuid, fields, pInner)>>
                  /\ cache' =
                        [cache EXCEPT
                            ![inner] = IF hitInner THEN @
                                       ELSE CacheSet(@, key, pInner),
                            ![fn] = CacheSet(@, key, p)]
                  /\ callLog' = callLog
                        \o <<Call(inner, uuid, fields, pInner),
                             Call(fn, uuid, fields, p)>>
    /\ UNCHANGED <<rvVars, cVars, dlVars, relVars>>

\* cloud.ts 29-40, 99-104: the remote answers a query and the promise of
\* the function that issued it settles
QuerySettles ==
    /\ \E p \in 1..Len(promises) :
          /\ promises[p].status = "pending"
          /\ \/ /\ promises[p].kind = "service"
                /\ \E ans \in ServiceAnswers :
                      promises' = [promises EXCEPT
                          ![p].status = ServiceOutcome(ans).status,
                          ![p].value = ServiceOutcome(ans).value]
             \/ /\ promises[p].kind = "device"
                /\ \E ans \in DeviceAnswers :
                      promises' = [promises EXCEPT
                          ![p].status = MaybeAppOutcome(ans).status,
                          ![p].value = MaybeAppOutcome(ans).value]
    /\ UNCHANGED <<cache, callLog>>
    /\ UNCHANGED <<rvVars, cVars, dlVars, relVars>>

\* cloud.ts 59-71: getDeviceAndAppFromUUID's await ends
AppSettles ==
    /\ \E p \in 1..Len(promises) :
          /\ promises[p].status = "pending"
          /\ promises[p].kind = "app"
          /\ promises[promises[p].awaits].status # "pending"
          /\ LET out == AppOutcome(promises[promises[p].awaits])
             IN promises' = [promises EXCEPT ![p].status = out.status,
                                             ![p].value = out.value]
    /\ UNCHANGED <<cache, callLog>>
    /\ UNCHANGED <<rvVars, cVars, dlVars, relVars>>

MemoNext ==
    \/ CallServiceIdToName
    \/ CallGetDeviceAndMaybeApp
    \/ CallGetDeviceAndApp
    \/ QuerySettles
    \/ AppSettles

SpecMemo == MemoInit /\ [][MemoNext]_vars

\* C10: each memoized lookup holds one cache entry per key (service id,
\* device UUID), which is the promise its first call for that key
\* returned; at most one remote query is issued per key; every later call
\* with the key returns that same promise, so the first call's value or
\* error, whatever fields it selects.
C10_MemoizedPerKey ==
    /\ \A p, q \in 1..Len(promises) :
          ( /\ promises[p].kind \in {"service", "device"}
            /\ promises[p].kind = promises[q].kind
            /\ promises[p].key = promises[q].key ) => p = q
    /\ \A i, j \in 1..Len(callLog) :
          ( /\ i < j
            /\ callLog[i].fn = callLog[j].fn
            /\ callLog[i].key = callLog[j].key ) =>
                /\ callLog[j].promise = callLog[i].promise
                /\ promises[callLog[j].promise].fields
                       = promises[callLog[i].promise].fields
    /\ \A f \in MemoFns : \A e1, e2 \in cache[f] :
          e1[1] = e2[1] => e1 = e2
    /\ \A i \in 1..Len(callLog) :
          \E e \in cache[callLog[i].fn] : e[2] = callLog[i].promise

\* a lookup whose first call failed was called again for the same UUID
\* with other fields and returned the same rejected promise
C10_Witness ==
    \E i, j \in 1..Len(callLog) :
       /\ i < j
       /\ callLog[i].fn = "getDeviceAndAppFromUUID"
       /\ callLog[j].fn = "getDeviceAndAppFromUUID"
       /\ callLog[i].key = callLog[j].key
       /\ callLog[i].fields # callLog[j].fields
       /\ callLog[i].promise = callLog[j].promise
       /\ promises[callLog[i].promise].status = "rejected"
       /\ promises[callLog[i].promise].value = "ExpectedError"

(***************************************************************************)
(* Release specification: one run of 'release export' or 'release import'  *)
(***************************************************************************)
\* the arguments and flags of the examples (export.ts 33-36, import.ts
\* 29-33); --fleet may be absent, a number or a slug (import.ts 59-62)
ExportArgs ==
    [cmd : {"export"},
     commitOrId : {"a777f7345fe3d655c1c981aa642e5555", "1234567"},
     output : {"../path/to/release.tar", "release.tar", "/release.tar"},
     bundle : {""}, fleetType : {"undefined"}, fleet : {""}]
ImportArgs ==
    [cmd : {"import"}, commitOrId : {""}, output : {""},
     bundle : {"../path/to/release.tar", "release.tar", "/release.tar"},
     fleetType : {"number"}, fleet : {"1234567"}]
    \cup
    [cmd : {"import"}, commitOrId : {""}, output : {""},
     bundle : {"../path/to/release.tar", "release.tar", "/release.tar"},
     fleetType : {"string"}, fleet : {"myFleet", "myOrg/myFleet"}]
    \cup
    [cmd : {"import"}, commitOrId : {""}, output : {""},
     bundle : {"../path/to/release.tar", "release.tar", "/release.tar"},
     fleetType : {"undefined"}, fleet : {"undefined"}]

\* error.message of an error thrown by the SDK (export.ts 63, import.ts
\* 68), the bundle library (export.ts 68, import.ts 71) or fs (export.ts 72)
ErrorMessages(step) ==
    IF step = "create" THEN {"Request error", "Release is not successful"}
    ELSE IF step = "write"
         THEN {"EACCES: permission denied", "ENOENT: no such file or directory"}
    ELSE IF step = "getFleet" THEN {"Request error", "Fleet not found"}
    ELSE {"Request error", "Invalid release bundle"}

\* the console.log lines (export.ts 74-76, 79-81; import.ts 77-79, 82-84)
FailureLine(args, message) ==
    [kind |-> "failure",
     text |-> IF args.cmd = "export" THEN "could not be exported"
              ELSE "Could not apply release bundle to fleet",
     subject |-> IF args.cmd = "export" THEN args.commitOrId ELSE args.fleet,
     message |-> message]
SuccessLine(args) ==
    [kind |-> "success",
     text |-> IF args.cmd = "export" THEN "has been exported to"
              ELSE "has been applied to",
     subject |-> IF args.cmd = "export" THEN args.output ELSE args.fleet,
     message |-> ""]

\* import.ts 59-64: the fleet flag is a number or a string
FleetIsNumberOrSlug(args) == args.fleetType \in {"number", "string"}

RelInit ==
    /\ relPc = "start"
    /\ relArgs \in ExportArgs \cup ImportArgs
    /\ relLog = <<>>
    /\ relEffect = "none"
    /\ relResult = "pending"
    /\ RvIdle
    /\ CIdle
    /\ DlIdle
    /\ MemoIdle

\* export.ts 73-81, import.ts 76-84: a step inside the try block threw:
\* the catch prints the failure line and does not rethrow, so run goes on
\* to the console.log after the try and resolves
CaughtAndContinued(message) ==
    /\ relLog' = relLog \o <<FailureLine(relArgs, message),
                             SuccessLine(relArgs)>>
    /\ relPc' = "done"
    /\ relResult' = "resolved"
    /\ UNCHANGED relEffect

\* the try block ran through: the console.log after it, and run resolves
Completed(effect) ==
    /\ relEffect' = effect
    /\ relLog' = Append(relLog, SuccessLine(relArgs))
    /\ relPc' = "done"
    /\ relResult' = "resolved"

\* export.ts 59-65: balena.models.release.get, outside the try block
ExportGetRelease ==
    /\ relPc = "start"
    /\ relArgs.cmd = "export"
    /\ \/ /\ relPc' = "create"
          /\ UNCHANGED relResult
       \/ /\ relPc' = "failed"
          /\ relResult' = "rejected"
    /\ UNCHANGED <<relArgs, relLog, relEffect>>
    /\ UNCHANGED <<rvVars, cVars, dlVars, memoVars>>

\* export.ts 67-71 (73-81 when it throws): create({sdk, releaseId})
ExportCreate ==
    /\ relPc = "create"
    /\ \/ /\ relPc' = "write"
          /\ UNCHANGED <<relLog, relEffect, relResult>>
       \/ \E m \in ErrorMessages("create") : CaughtAndContinued(m)
    /\ UNCHANGED relArgs
    /\ UNCHANGED <<rvVars, cVars, dlVars, memoVars>>

\* export.ts 72-81: fs.writeFile(options.output, releaseBundle)
ExportWrite ==
    /\ relPc = "write"
    /\ \/ Completed("file written")
       \/ \E m \in ErrorMessages("write") : CaughtAndContinued(m)
    /\ UNCHANGED relArgs
    /\ UNCHANGED <<rvVars, cVars, dlVars, memoVars>>

\* import.ts 52-70: createReadStream, the fleet test, and the
\* application.get request
ImportStart ==
    /\ relPc = "start"
    /\ relArgs.cmd = "import"
    /\ IF FleetIsNumberOrSlug(relArgs)
       THEN /\ relPc' = "getFleet"
            /\ UNCHANGED <<relLog, relEffect, relResult>>
       ELSE CaughtAndContinued("Fleet must be a number or slug.")
    /\ UNCHANGED relArgs
    /\ UNCHANGED <<rvVars, cVars, dlVars, memoVars>>

\* import.ts 68-70 (76-84 when it throws): balena.models.application.get
ImportGetFleet ==
    /\ relPc = "getFleet"
    /\ \/ /\ relPc' = "apply"
          /\ UNCHANGED <<relLog, relEffect, relResult>>
       \/ \E m \in ErrorMessages("getFleet") : CaughtAndContinued(m)
    /\ UNCHANGED relArgs
    /\ UNCHANGED <<rvVars, cVars, dlVars, memoVars>>

\* import.ts 71-84: apply({sdk, application, stream})
ImportApply ==
    /\ relPc = "apply"
    /\ \/ Completed("bundle applied")
       \/ \E m \in ErrorMessages("apply") : CaughtAndContinued(m)
    /\ UNCHANGED relArgs
    /\ UNCHANGED <<rvVars, cVars, dlVars, memoVars>>

RelNext ==
    \/ ExportGetRelease
    \/ ExportCreate
    \/ ExportWrite
    \/ ImportStart
    \/ ImportGetFleet
    \/ ImportApply

SpecRelease == RelInit /\ [][RelNext]_vars

\* C11 (as claimed): the release commands print 'has been exported to' /
\* 'has been applied to' only when the operation succeeded - the file was
\* written, the bundle was applied - and a 'could not be exported' /
\* 'Could not apply' line is never followed by the success line.
C11_SuccessLineOnlyOnSuccess ==
    \A i \in 1..Len(relLog) :
        relLog[i].kind = "success" =>
            /\ relEffect = (IF relArgs.cmd = "export" THEN "file written"
                            ELSE "bundle applied")
            /\ \A j \in 1..(i - 1) : relLog[j].kind # "failure"

====
